---------------------------- MODULE Spec2Model ----------------------------
(***************************************************************************)
(* A model of byoit: the interactive bootstrap of OpenLDAP (main), the     *)
(* HelmManager operations and the OpenLDAP / GitLab services built on it.  *)
(*                                                                         *)
(* Strings that the program transforms (operator entries, the domain, the  *)
(* base DN, command output) are sequences of one-character strings, so     *)
(* that trimming, splitting and joining are computed.  Names that the      *)
(* program only passes along (release names, URLs, error messages) are     *)
(* plain strings.                                                          *)
(***************************************************************************)
EXTENDS Integers, Sequences, FiniteSets, TLC

VARIABLES
    pc,          \* position of main in the current run
    run,         \* number of the current run of the binary
    cfg,         \* the Config value of main
    typed,       \* what the operator typed at the two credential prompts
    conn,        \* the observed outcome of the connectivity check of this run
    err,         \* the error that the step just taken produced ("none" if none)
    rejects,     \* network blocks rejected by the prompt loop in this run
    ops,         \* external operations issued in this run, in order
    entered,     \* stages entered in this run, in order
    namespaces,  \* cluster: the namespaces that exist
    releases,    \* cluster: Helm release records, by release name
    repoFile,    \* the Helm repository registration file
    cache,       \* the Helm repository cache directory, by repository name
    jobs,        \* cluster: the jobs that manifests applied so far created
    tmp,         \* temporary manifest files that exist, by the run that made them
    snapshot,    \* infractl.step1.json
    secret,      \* the last read of the admin secret in this run and its result
    stdout,      \* the credentials that lines printed in this run show
    pods,        \* the read of the pod status in this run and what was printed
    call,        \* service harness: the last completed call
    reg,         \* service harness: what the AddRepository calls registered
    fnIn,        \* pure-function harness: the input
    fnOut        \* pure-function harness: the result

vars == <<pc, run, cfg, typed, conn, err, rejects, ops, entered, namespaces,
          releases, repoFile, cache, jobs, tmp, snapshot, secret, stdout, pods,
          call, reg, fnIn, fnOut>>

runVars == <<pc, run, cfg, typed, conn, err, rejects, ops, entered, snapshot,
            secret, stdout, pods>>
worldVars == <<namespaces, releases, repoFile, cache, jobs, tmp>>
svcVars == <<call, reg>>
fnVars == <<fnIn, fnOut>>

---------------------------------------------------------------------------
(* Bounds of the model.                                                    *)

MaxRuns == 2
MaxRejects == 2
MaxCalls == 2

---------------------------------------------------------------------------
(* Strings.                                                                *)

Range(s) == {s[i] : i \in 1..Len(s)}

IsSpace(c) == c = " "

RECURSIVE TrimLeft(_)
TrimLeft(s) ==
    IF s # <<>> /\ IsSpace(Head(s)) THEN TrimLeft(Tail(s)) ELSE s

RECURSIVE TrimRight(_)
TrimRight(s) ==
    IF s # <<>> /\ IsSpace(s[Len(s)]) THEN TrimRight(SubSeq(s, 1, Len(s) - 1)) ELSE s

\* strings.TrimSpace
TrimSpace(s) == TrimRight(TrimLeft(s))

\* strings.Split(s, sep) for a one-character separator: the pieces between
\* separators, empty pieces included; Split("", sep) is [""].
RECURSIVE SplitAcc(_, _, _)
SplitAcc(s, sep, cur) ==
    IF s = <<>> THEN <<cur>>
    ELSE IF Head(s) = sep THEN <<cur>> \o SplitAcc(Tail(s), sep, <<>>)
    ELSE SplitAcc(Tail(s), sep, Append(cur, Head(s)))

Split(s, sep) == SplitAcc(s, sep, <<>>)

\* strings.Join(parts, sep)
RECURSIVE Join(_, _)
Join(parts, sep) ==
    IF parts = <<>> THEN <<>>
    ELSE IF Len(parts) = 1 THEN parts[1]
    ELSE parts[1] \o sep \o Join(Tail(parts), sep)

---------------------------------------------------------------------------
(* baseDNFromDomain.                                                       *)

DC == <<"d", "c", "=">>

RECURSIVE DCParts(_)
DCParts(parts) ==
    IF parts = <<>> THEN <<>>
    ELSE IF Head(parts) # <<>> THEN <<DC \o Head(parts)>> \o DCParts(Tail(parts))
    ELSE DCParts(Tail(parts))

baseDNFromDomain(d) == Join(DCParts(Split(TrimSpace(d), ".")), <<",">>)

---------------------------------------------------------------------------
(* validateCIDR.  An entry is abstracted to what net.ParseCIDR makes of    *)
(* it: nothing typed, a parse error, or an IPv4 address (four octets) and  *)
(* a prefix length.                                                        *)

Pow2(n) == <<1, 2, 4, 8, 16, 32, 64, 128, 256>>[n + 1]

\* The number of mask bits that fall into octet i (1..4) of a /ones mask.
OctetBits(ones, i) ==
    LET k == ones - 8 * (i - 1)
    IN  IF k < 0 THEN 0 ELSE IF k > 8 THEN 8 ELSE k

\* ip & net.CIDRMask(ones, 32)
MaskIP(ip, ones) ==
    [i \in 1..4 |-> ip[i] - (ip[i] % Pow2(8 - OctetBits(ones, i)))]

\* net.ParseCIDR: the address as written and the network it lies in.
ParseCIDR(c) ==
    [ip |-> c.ip, ipNet |-> [IP |-> MaskIP(c.ip, c.ones), ones |-> c.ones]]

\* (*IPNet).Contains
Contains(n, ip) == MaskIP(ip, n.ones) = MaskIP(n.IP, n.ones)

private10 == [IP |-> <<10, 0, 0, 0>>, ones |-> 8]
private172 == [IP |-> <<172, 16, 0, 0>>, ones |-> 12]
private192 == [IP |-> <<192, 168, 0, 0>>, ones |-> 16]

isPrivateNetwork(ipNet) ==
    \/ Contains(private10, ipNet.IP)
    \/ Contains(private172, ipNet.IP)
    \/ Contains(private192, ipNet.IP)

MinSubnetOnes == 24

validateCIDR(c) ==
    IF c.kind = "empty" THEN "CIDR cannot be empty"
    ELSE IF c.kind = "malformed" THEN "invalid CIDR format"
    ELSE LET p == ParseCIDR(c)
         IN  IF p.ip # p.ipNet.IP
                 THEN "CIDR must represent a network, not a host address"
             ELSE IF ~isPrivateNetwork(p.ipNet)
                 THEN "CIDR should be a private network"
             ELSE IF p.ipNet.ones > MinSubnetOnes
                 THEN "CIDR subnet too small"
             ELSE "nil"

NoIP == <<0, 0, 0, 0>>
EmptyCIDR == [kind |-> "empty", ip |-> NoIP, ones |-> 0]
MalformedCIDR == [kind |-> "malformed", ip |-> NoIP, ones |-> 0]
V4(ip, ones) == [kind |-> "v4", ip |-> ip, ones |-> ones]

---------------------------------------------------------------------------
(* ask.  The visible prompt reads one line and trims it.  The hidden       *)
(* prompt runs  bash -lc "read -s REPLY; echo $REPLY"  and trims what that *)
(* prints; the error of running it is dropped.                             *)

\* The words of s: the pieces between runs of blanks.
RECURSIVE NonEmpty(_)
NonEmpty(parts) ==
    IF parts = <<>> THEN <<>>
    ELSE IF Head(parts) = <<>> THEN NonEmpty(Tail(parts))
    ELSE <<Head(parts)>> \o NonEmpty(Tail(parts))

Fields(s) == NonEmpty(Split(s, " "))

\* read without -r: a backslash is removed and the character after it kept.
RECURSIVE Unescape(_)
Unescape(s) ==
    IF s = <<>> THEN <<>>
    ELSE IF Head(s) = "\\"
        THEN IF Len(s) = 1 THEN <<>>
             ELSE <<s[2]>> \o Unescape(Tail(Tail(s)))
    ELSE <<Head(s)>> \o Unescape(Tail(s))

\* read REPLY: leading and trailing blanks are dropped, then the escapes.
BashRead(line) == Unescape(TrimSpace(line))

\* A word that the echo builtin takes as options: -n, -e, -E and mixes.
IsEchoOption(w) ==
    /\ Len(w) >= 2
    /\ w[1] = "-"
    /\ \A i \in 2..Len(w) : w[i] \in {"n", "e", "E"}

RECURSIVE DropOptions(_)
DropOptions(words) ==
    IF words # <<>> /\ IsEchoOption(Head(words)) THEN DropOptions(Tail(words))
    ELSE words

\* echo $REPLY: the unquoted expansion is split into words, leading option
\* words are consumed, the rest is printed with single blanks between.
BashEcho(reply) == Join(DropOptions(Fields(reply)), <<" ">>)

ask(line, hidden, bashOK) ==
    IF hidden
        THEN IF bashOK THEN TrimSpace(BashEcho(BashRead(line))) ELSE <<>>
    ELSE TrimSpace(line)

---------------------------------------------------------------------------
(* The repository registration file and the repository cache.              *)

Entry(name, url) == [Name |-> name, URL |-> url]

AbsentFile == [kind |-> "absent", entries |-> <<>>]
NoCache == [present |-> FALSE, url |-> "", doc |-> ""]

\* repo.LoadFile: the entries of a file that exists and parses, an error
\* otherwise.
LoadFile(f) ==
    IF f.kind = "ok" THEN [err |-> FALSE, entries |-> f.entries]
    ELSE [err |-> TRUE, entries |-> <<>>]

\* An upsert that always appends.
Update_Append(entries, e) == Append(entries, e)

\* (*repo.File).Update: replace the entry of that name, or append.
Update(entries, e) ==
    IF \E j \in 1..Len(entries) : entries[j].Name = e.Name
        THEN LET j == CHOOSE k \in 1..Len(entries) :
                         /\ entries[k].Name = e.Name
                         /\ \A m \in 1..(k - 1) : entries[m].Name # e.Name
             IN  [entries EXCEPT ![j] = e]
    ELSE Append(entries, e)

\* (*repo.File).WriteFile: written, refused (the file is left as it was), or
\* cut short (the file is left unparseable).
WriteRepoFile(f, entries, how) ==
    IF how = "ok" THEN [kind |-> "ok", entries |-> entries]
    ELSE IF how = "partial" THEN [kind |-> "corrupt", entries |-> <<>>]
    ELSE f

\* repo.NewChartRepository fails for a URL it cannot parse.
ValidURL(url) == url # "::bad"

CurlOutcomes == {"err", "index", "page"}

\* The outcomes of the external steps of one call.  A step that is not
\* reached has one outcome only (the first of its kind), so that each course
\* of the call is listed once.
RepoOutcomes ==
    {o \in [direct : BOOLEAN, curl : CurlOutcomes, mkdir : BOOLEAN,
            wcache : BOOLEAN, wrepo : {"ok", "fail", "partial"}] :
        /\ o.direct => (o.curl = "err" /\ o.mkdir /\ o.wcache)
        /\ (~o.direct /\ o.curl = "err") => (o.mkdir /\ o.wcache /\ o.wrepo = "ok")
        /\ ~o.mkdir => (o.wcache /\ o.wrepo = "ok")
        /\ ~o.wcache => o.wrepo = "ok"}

\* The registration tail shared by both copies of the function: load, upsert,
\* write back.
Register(name, url, f, c, o, opsSoFar) ==
    LET loaded == LoadFile(f)
        base == IF loaded.err THEN <<>> ELSE loaded.entries
        next == Update(base, Entry(name, url))
    IN  [ret |-> IF o.wrepo = "ok" THEN "nil" ELSE "failed to write repository file",
         repoFile |-> WriteRepoFile(f, next, o.wrepo),
         cache |-> c,
         ops |-> opsSoFar \o <<"write repofile">>]

\* addHelmRepo (main.go).
addHelmRepo(name, url, f, c, o) ==
    IF ~ValidURL(url)
        THEN [ret |-> "failed to create chart repository", repoFile |-> f,
              cache |-> c, ops |-> <<>>]
    ELSE IF o.direct
        \* DownloadIndexFile succeeded: Helm has written the cache itself.
        THEN Register(name, url, f,
                      [c EXCEPT ![name] = [present |-> TRUE, url |-> url, doc |-> "index"]],
                      o, <<"download index", "write cache">>)
    ELSE IF o.curl = "err"
        THEN [ret |-> "failed to download index file locally", repoFile |-> f,
              cache |-> c, ops |-> <<"download index", "curl">>]
    ELSE IF ~o.mkdir
        THEN [ret |-> "failed to create cache directory", repoFile |-> f,
              cache |-> c, ops |-> <<"download index", "curl", "mkdir cache">>]
    ELSE IF ~o.wcache
        THEN [ret |-> "failed to write index file", repoFile |-> f,
              cache |-> c, ops |-> <<"download index", "curl", "mkdir cache", "write cache">>]
    ELSE Register(name, url, f,
                  [c EXCEPT ![name] = [present |-> TRUE, url |-> url, doc |-> o.curl]],
                  o, <<"download index", "curl", "mkdir cache", "write cache">>)

---------------------------------------------------------------------------
(* Helm releases and the install.                                          *)

ReleaseNames == {"ldap", "gitlab"}
RepoNames == {"helm-openldap", "gitlab"}

NoValues == [kind |-> "none"]
NoRelease == [status |-> "none", chart |-> <<>>, values |-> NoValues]

InstallOutcomes ==
    {o \in [locate : BOOLEAN, load : BOOLEAN, run : {"ok", "failed", "rejected"}] :
        /\ ~o.locate => (o.load /\ o.run = "ok")
        /\ ~o.load => o.run = "ok"}

\* An install run that replaces a release that is already there.
HelmInstallRun_Replace(rels, nss, name, chart, ns, values, how) ==
    IF how = "ok"
        THEN [ok |-> TRUE,
              releases |-> [rels EXCEPT ![name] =
                  [status |-> "deployed", chart |-> chart, values |-> values]],
              namespaces |-> nss \cup {ns}]
    ELSE IF how = "failed"
        THEN [ok |-> FALSE,
              releases |-> [rels EXCEPT ![name] =
                  [status |-> "failed", chart |-> chart, values |-> values]],
              namespaces |-> nss \cup {ns}]
    ELSE [ok |-> FALSE, releases |-> rels, namespaces |-> nss]

\* action.Install.Run as the code configures it (Replace is never set): a
\* name with any release history is refused; otherwise the release is
\* created (deployed), recorded as failed, or rejected before any record.
\* CreateNamespace makes the namespace when a record is written.
HelmInstallRun(rels, nss, name, chart, ns, values, how) ==
    IF rels[name].status # "none"
        THEN [ok |-> FALSE, releases |-> rels, namespaces |-> nss]
    ELSE IF how = "ok"
        THEN [ok |-> TRUE,
              releases |-> [rels EXCEPT ![name] =
                  [status |-> "deployed", chart |-> chart, values |-> values]],
              namespaces |-> nss \cup {ns}]
    ELSE IF how = "failed"
        THEN [ok |-> FALSE,
              releases |-> [rels EXCEPT ![name] =
                  [status |-> "failed", chart |-> chart, values |-> values]],
              namespaces |-> nss \cup {ns}]
    ELSE [ok |-> FALSE, releases |-> rels, namespaces |-> nss]

\* An install that upgrades a release that is already there.
InstallChart_Upgrade(releaseName, chartRef, namespace, values, rels, nss, o) ==
    IF ~o.locate \/ ~o.load
        THEN [ret |-> "failed to locate chart", releases |-> rels,
              namespaces |-> nss, ops |-> <<"locate chart">>]
    ELSE IF rels[releaseName].status # "none"
        THEN [ret |-> "nil",
              releases |-> [rels EXCEPT ![releaseName] =
                  [status |-> "deployed", chart |-> chartRef, values |-> values]],
              namespaces |-> nss,
              ops |-> <<"locate chart", "load chart", "helm install">>]
    ELSE LET r == HelmInstallRun(rels, nss, releaseName, chartRef, namespace, values, o.run)
         IN  [ret |-> IF r.ok THEN "nil" ELSE "failed to install chart",
              releases |-> r.releases, namespaces |-> r.namespaces,
              ops |-> <<"locate chart", "load chart", "helm install">>]

\* HelmManager.InstallChart
InstallChart(releaseName, chartRef, namespace, values, rels, nss, o) ==
    IF ~o.locate
        THEN [ret |-> "failed to locate chart", releases |-> rels,
              namespaces |-> nss, ops |-> <<"locate chart">>]
    ELSE IF ~o.load
        THEN [ret |-> "failed to load chart", releases |-> rels,
              namespaces |-> nss, ops |-> <<"locate chart", "load chart">>]
    ELSE LET r == HelmInstallRun(rels, nss, releaseName, chartRef, namespace, values, o.run)
         IN  [ret |-> IF r.ok THEN "nil" ELSE "failed to install chart",
              releases |-> r.releases, namespaces |-> r.namespaces,
              ops |-> <<"locate chart", "load chart", "helm install">>]

\* installOpenLDAP, lines 417-442: the fresh install, written out inline.
FreshInstall(releaseName, chartRef, namespace, values, rels, nss, o) ==
    IF ~o.locate
        THEN [ret |-> "failed to locate chart", releases |-> rels,
              namespaces |-> nss, ops |-> <<"locate chart">>]
    ELSE IF ~o.load
        THEN [ret |-> "failed to load chart", releases |-> rels,
              namespaces |-> nss, ops |-> <<"locate chart", "load chart">>]
    ELSE LET r == HelmInstallRun(rels, nss, releaseName, chartRef, namespace, values, o.run)
         IN  [ret |-> IF r.ok THEN "nil" ELSE "failed to install chart",
              releases |-> r.releases, namespaces |-> r.namespaces,
              ops |-> <<"locate chart", "load chart", "helm install">>]

\* chartRef of installOpenLDAP and OpenLDAPService.Install.
ChartRef(c) ==
    IF c.OpenLDAPVer # "" THEN <<c.OpenLDAPChart, c.OpenLDAPVer>>
    ELSE <<c.OpenLDAPChart>>

\* The identity-bearing leaves of the OpenLDAP values tree; the image
\* triples are the same constants in every tree.
LDAPValues(c) ==
    [kind |-> "openldap",
     ldapDomain |-> c.Domain, adminPassword |-> c.AdminPass,
     configPassword |-> c.ConfigPass, domain |-> c.Domain, root |-> c.BaseDN]

---------------------------------------------------------------------------
(* getActualAdminPassword: the read of the admin secret and the decoding   *)
(* of what it prints.                                                      *)

\* The alphabet of base64.StdEncoding.
encodeStd ==
    <<"A", "B", "C", "D", "E", "F", "G", "H", "I", "J", "K", "L", "M", "N", "O", "P",
      "Q", "R", "S", "T", "U", "V", "W", "X", "Y", "Z", "a", "b", "c", "d", "e", "f",
      "g", "h", "i", "j", "k", "l", "m", "n", "o", "p", "q", "r", "s", "t", "u", "v",
      "w", "x", "y", "z", "0", "1", "2", "3", "4", "5", "6", "7", "8", "9", "+", "/">>

IsB64(c) == \E i \in 1..Len(encodeStd) : encodeStd[i] = c
B64Val(c) == (CHOOSE i \in 1..Len(encodeStd) : encodeStd[i] = c) - 1

\* The printable characters, from the blank (byte 32) to the tilde; the
\* grave accent (byte 96), which a TLA+ string cannot hold, is written "<96>".
ASCII ==
    <<" ", "!", "\"", "#", "$", "%", "&", "'", "(", ")", "*", "+", ",", "-", ".", "/",
      "0", "1", "2", "3", "4", "5", "6", "7", "8", "9", ":", ";", "<", "=", ">", "?",
      "@", "A", "B", "C", "D", "E", "F", "G", "H", "I", "J", "K", "L", "M", "N", "O",
      "P", "Q", "R", "S", "T", "U", "V", "W", "X", "Y", "Z", "[", "\\", "]", "^", "_",
      "<96>", "a", "b", "c", "d", "e", "f", "g", "h", "i", "j", "k", "l", "m", "n", "o",
      "p", "q", "r", "s", "t", "u", "v", "w", "x", "y", "z", "{", "|", "}", "~">>

FirstPrintable == 32

\* string(decoded), byte by byte; a byte that is not printable is shown as
\* "<?>".
Chr(b) ==
    IF b >= FirstPrintable /\ b < FirstPrintable + Len(ASCII)
        THEN ASCII[b - FirstPrintable + 1]
    ELSE "<?>"

\* One quantum of four characters: three bytes, or two or one before the
\* padding.
DecodeQuantum(g) ==
    IF g[3] = "=" /\ g[4] = "="
        THEN IF IsB64(g[1]) /\ IsB64(g[2])
                 THEN [ok |-> TRUE,
                       bytes |-> <<B64Val(g[1]) * 4 + (B64Val(g[2]) \div 16)>>]
             ELSE [ok |-> FALSE, bytes |-> <<>>]
    ELSE IF g[4] = "="
        THEN IF IsB64(g[1]) /\ IsB64(g[2]) /\ IsB64(g[3])
                 THEN [ok |-> TRUE,
                       bytes |-> <<B64Val(g[1]) * 4 + (B64Val(g[2]) \div 16),
                                   (B64Val(g[2]) % 16) * 16 + (B64Val(g[3]) \div 4)>>]
             ELSE [ok |-> FALSE, bytes |-> <<>>]
    ELSE IF \A i \in 1..4 : IsB64(g[i])
        THEN [ok |-> TRUE,
              bytes |-> <<B64Val(g[1]) * 4 + (B64Val(g[2]) \div 16),
                          (B64Val(g[2]) % 16) * 16 + (B64Val(g[3]) \div 4),
                          (B64Val(g[3]) % 4) * 64 + B64Val(g[4])>>]
    ELSE [ok |-> FALSE, bytes |-> <<>>]

\* base64.StdEncoding.DecodeString: whole quanta only, padding only in the
\* last one.
RECURSIVE DecodeString(_)
DecodeString(s) ==
    IF s = <<>> THEN [ok |-> TRUE, bytes |-> <<>>]
    ELSE IF Len(s) < 4 THEN [ok |-> FALSE, bytes |-> <<>>]
    ELSE LET g == SubSeq(s, 1, 4)
             d == DecodeQuantum(g)
             rest == DecodeString(SubSeq(s, 5, Len(s)))
         IN  IF ~d.ok \/ (g[4] = "=" /\ Len(s) > 4) \/ ~rest.ok
                 THEN [ok |-> FALSE, bytes |-> <<>>]
             ELSE [ok |-> TRUE, bytes |-> d.bytes \o rest.bytes]

\* getActualAdminPassword (and HelmManager.GetActualAdminPassword, the same
\* statements): rd is what the get secret command did, its exit status and
\* its standard output.
getActualAdminPassword(rd) ==
    LET out == TrimSpace(rd.raw)
    IN  IF rd.exit0 /\ out # <<>>
            THEN LET decoded == DecodeString(out)
                 IN  IF decoded.ok
                         THEN [i \in 1..Len(decoded.bytes) |-> Chr(decoded.bytes[i])]
                     ELSE <<>>
        ELSE <<>>

\* What the get secret command may do: fail, print nothing (no such field),
\* print the encoded field, or print something that does not decode.
SecretOutputs ==
    {<<>>, <<"c", "A", "=", "=">>, <<" ", "c", "H", "E", "=">>,
     <<"c", "A", "=">>, <<"!", "A", "=", "=">>}

\* What one get secret command did.  A command that failed is taken with no
\* output and with an output that would decode.
SecretReads ==
    {rd \in [exit0 : BOOLEAN, raw : SecretOutputs] :
        ~rd.exit0 => rd.raw \in {<<>>, <<"c", "A", "=", "=">>}}

NoSecret == [read |-> FALSE, exit0 |-> FALSE, raw |-> <<>>, actual |-> <<>>]

\* The state of secret after the read rd.
SecretRead(rd) ==
    [read |-> TRUE, exit0 |-> rd.exit0, raw |-> rd.raw,
     actual |-> getActualAdminPassword(rd)]

\* The line that shows the decoded secret, printed if it is not empty.
PrintActual(actual) ==
    IF actual # <<>> THEN {[what |-> "Actual admin password from secret", text |-> actual]}
    ELSE {}

---------------------------------------------------------------------------
(* main: the configuration and the stages.                                 *)

InitialConfig ==
    [Namespace |-> "infra",
     NetworkCIDR |-> EmptyCIDR,
     Domain |-> <<>>,
     BaseDN |-> <<>>,
     AdminPass |-> <<>>,
     ConfigPass |-> <<>>,
     Kubeconfig |-> "/etc/rancher/k3s/k3s.yaml",
     ReleaseName |-> "ldap",
     OpenLDAPRepo |-> "https://jp-gouin.github.io/helm-openldap/",
     OpenLDAPChart |-> "helm-openldap/openldap-stack-ha",
     OpenLDAPVer |-> ""]

StageOrder ==
    <<"Validating", "ConnectingCluster", "EnsuringNamespace", "ResolvingRepository",
      "Installing", "PostInstalling", "RetrievingCredential", "Done">>

\* The stage that each position of main belongs to.
StageOf(p) ==
    CASE p = "CheckDeps" -> "Starting"
      [] p \in {"AskCIDR", "AskDomain", "AskAdminPass", "AskConfigPass"} -> "Validating"
      [] p = "Connect" -> "ConnectingCluster"
      [] p = "EnsureNS" -> "EnsuringNamespace"
      [] p = "AddRepo" -> "ResolvingRepository"
      [] p \in {"HelmConfig", "Install", "PodStatus", "InstallSecret"} -> "Installing"
      [] p = "ApplyJob" -> "PostInstalling"
      [] p = "Finish" -> "RetrievingCredential"
      [] p = "Done" -> "Done"
      [] OTHER -> "Failed"

\* The history of stages after a move to position p.
Enter(p) ==
    IF StageOf(p) # StageOf(pc) THEN Append(entered, StageOf(p)) ELSE entered

NoConn == [done |-> FALSE, exit0 |-> FALSE, raw |-> <<>>]
NoTyped == [admin |-> <<>>, config |-> <<>>]
NoSnapshot == [written |-> FALSE, cfg |-> InitialConfig]
DirectOK == [direct |-> TRUE, curl |-> "err", mkdir |-> TRUE, wcache |-> TRUE, wrepo |-> "ok"]
NoCall ==
    [seq |-> 0, fn |-> "", name |-> "", url |-> "", rel |-> "", values |-> NoValues,
     o |-> DirectOK, repoRet |-> "none", ret |-> "nil", ops |-> <<>>]
NoReg == [last |-> [n \in RepoNames |-> ""], allOk |-> TRUE, changed |-> {}]

---------------------------------------------------------------------------
(* What the operator and the environment may supply.                       *)

CIDRLines ==
    {EmptyCIDR, MalformedCIDR,
     V4(<<192, 168, 100, 0>>, 24), V4(<<192, 168, 100, 1>>, 24)}

DomainLines ==
    {<<>>, <<".">>, <<" ", "a", ".", "b">>}

AdminLines == {<<>>, <<"p">>, <<"-", "n">>}

ConfigLines == {<<>>, <<" ", "q">>, <<"-", "n">>, <<"\\", "q">>}

\* What the cluster client prints for get nodes -o name.
NodeOutputs == {<<>>, <<" ">>, <<"n">>}

---------------------------------------------------------------------------
(* main, step by step.  Every step records the error its code tested.      *)

\* must(checkDependencies())
CheckDeps ==
    /\ pc = "CheckDeps"
    /\ \E ok \in BOOLEAN :
        /\ err' = IF ok THEN "none" ELSE "docker is not installed or not running"
        /\ pc' = IF ok THEN "AskCIDR" ELSE "Failed"
    /\ ops' = Append(ops, "docker version")
    /\ entered' = Enter(pc')
    /\ UNCHANGED <<run, cfg, typed, conn, rejects, snapshot, secret, stdout, pods>>
    /\ UNCHANGED worldVars /\ UNCHANGED svcVars /\ UNCHANGED fnVars

\* The prompt loop of the network block: an entry that fails validation is
\* reported and the prompt is repeated.
AskCIDR ==
    /\ pc = "AskCIDR"
    /\ \E line \in CIDRLines :
        LET e == validateCIDR(line)
        IN  /\ cfg' = [cfg EXCEPT !.NetworkCIDR = line]
            /\ IF e # "nil"
                  THEN /\ rejects < MaxRejects
                       /\ rejects' = rejects + 1
                       /\ err' = e
                       /\ pc' = "AskCIDR"
                  ELSE /\ rejects' = rejects
                       /\ err' = "none"
                       /\ pc' = "AskDomain"
    /\ entered' = Enter(pc')
    /\ UNCHANGED <<run, typed, conn, ops, snapshot, secret, stdout, pods>>
    /\ UNCHANGED worldVars /\ UNCHANGED svcVars /\ UNCHANGED fnVars

\* A domain prompt that lets the empty domain through.
AskDomain_NoCheck ==
    /\ pc = "AskDomain"
    /\ \E line \in DomainLines :
        LET d == ask(line, FALSE, TRUE)
        IN  /\ cfg' = [cfg EXCEPT !.Domain = d, !.BaseDN = baseDNFromDomain(d)]
            /\ err' = "none"
            /\ pc' = "AskAdminPass"
    /\ entered' = Enter(pc')
    /\ UNCHANGED <<run, typed, conn, rejects, ops, snapshot, secret, stdout, pods>>
    /\ UNCHANGED worldVars /\ UNCHANGED svcVars /\ UNCHANGED fnVars

\* cfg.Domain = ask(...); must(...) if empty; cfg.BaseDN = baseDNFromDomain(...)
AskDomain ==
    /\ pc = "AskDomain"
    /\ \E line \in DomainLines :
        LET d == ask(line, FALSE, TRUE)
        IN  IF d = <<>>
                THEN /\ cfg' = [cfg EXCEPT !.Domain = d]
                     /\ err' = "domain is required"
                     /\ pc' = "Failed"
            ELSE /\ cfg' = [cfg EXCEPT !.Domain = d, !.BaseDN = baseDNFromDomain(d)]
                 /\ err' = "none"
                 /\ pc' = "AskAdminPass"
    /\ entered' = Enter(pc')
    /\ UNCHANGED <<run, typed, conn, rejects, ops, snapshot, secret, stdout, pods>>
    /\ UNCHANGED worldVars /\ UNCHANGED svcVars /\ UNCHANGED fnVars

\* cfg.AdminPass = ask(..., true); must(...) if empty
AskAdminPass ==
    /\ pc = "AskAdminPass"
    /\ \E line \in AdminLines, bashOK \in BOOLEAN :
        LET v == ask(line, TRUE, bashOK)
        IN  /\ cfg' = [cfg EXCEPT !.AdminPass = v]
            /\ typed' = [typed EXCEPT !.admin = line]
            /\ err' = IF v = <<>> THEN "admin password required" ELSE "none"
            /\ pc' = IF v = <<>> THEN "Failed" ELSE "AskConfigPass"
    /\ entered' = Enter(pc')
    /\ UNCHANGED <<run, conn, rejects, ops, snapshot, secret, stdout, pods>>
    /\ UNCHANGED worldVars /\ UNCHANGED svcVars /\ UNCHANGED fnVars

\* cfg.ConfigPass = ask(..., true); an empty answer reuses cfg.AdminPass
AskConfigPass ==
    /\ pc = "AskConfigPass"
    /\ \E line \in ConfigLines, bashOK \in BOOLEAN :
        LET v == ask(line, TRUE, bashOK)
        IN  /\ cfg' = [cfg EXCEPT !.ConfigPass = IF v = <<>> THEN cfg.AdminPass ELSE v]
            /\ typed' = [typed EXCEPT !.config = line]
    /\ err' = "none"
    /\ pc' = "Connect"
    /\ entered' = Enter(pc')
    /\ UNCHANGED <<run, conn, rejects, ops, snapshot, secret, stdout, pods>>
    /\ UNCHANGED worldVars /\ UNCHANGED svcVars /\ UNCHANGED fnVars

\* A connectivity check that tests the exit status only.
Connect_ExitOnly ==
    /\ pc = "Connect"
    /\ \E exit0 \in BOOLEAN, raw \in NodeOutputs :
        /\ conn' = [done |-> TRUE, exit0 |-> exit0, raw |-> raw]
        /\ err' = IF ~exit0 THEN "cannot reach cluster" ELSE "none"
        /\ pc' = IF ~exit0 THEN "Failed" ELSE "EnsureNS"
    /\ ops' = Append(ops, "get nodes")
    /\ entered' = Enter(pc')
    /\ UNCHANGED <<run, cfg, typed, rejects, snapshot, secret, stdout, pods>>
    /\ UNCHANGED worldVars /\ UNCHANGED svcVars /\ UNCHANGED fnVars

\* out, err := runOut(get nodes -o name); must(...) if err != nil || out == ""
Connect ==
    /\ pc = "Connect"
    /\ \E exit0 \in BOOLEAN, raw \in NodeOutputs :
        LET out == TrimSpace(raw)
            bad == ~exit0 \/ out = <<>>
        IN  /\ conn' = [done |-> TRUE, exit0 |-> exit0, raw |-> raw]
            /\ err' = IF bad THEN "cannot reach cluster" ELSE "none"
            /\ pc' = IF bad THEN "Failed" ELSE "EnsureNS"
    /\ ops' = Append(ops, "get nodes")
    /\ entered' = Enter(pc')
    /\ UNCHANGED <<run, cfg, typed, rejects, snapshot, secret, stdout, pods>>
    /\ UNCHANGED worldVars /\ UNCHANGED svcVars /\ UNCHANGED fnVars

\* A namespace step that gives up when the request fails.
EnsureNS_Must ==
    /\ pc = "EnsureNS"
    /\ \E created \in BOOLEAN :
        LET ok == created /\ cfg.Namespace \notin namespaces
        IN  /\ namespaces' = IF ok THEN namespaces \cup {cfg.Namespace} ELSE namespaces
            /\ err' = IF ok THEN "none" ELSE "create ns failed"
            /\ pc' = IF ok THEN "AddRepo" ELSE "Failed"
    /\ ops' = Append(ops, "create ns")
    /\ entered' = Enter(pc')
    /\ UNCHANGED <<run, cfg, typed, conn, rejects, snapshot, secret, stdout, pods>>
    /\ UNCHANGED <<releases, repoFile, cache, jobs, tmp>>
    /\ UNCHANGED svcVars /\ UNCHANGED fnVars

\* ensureNS: create ns; the error of the request is dropped.  The request
\* fails for a namespace that exists and may fail for any other reason.
EnsureNS ==
    /\ pc = "EnsureNS"
    /\ \E created \in BOOLEAN :
        namespaces' = IF created /\ cfg.Namespace \notin namespaces
                          THEN namespaces \cup {cfg.Namespace}
                      ELSE namespaces
    /\ err' = "none"
    /\ pc' = "AddRepo"
    /\ ops' = Append(ops, "create ns")
    /\ entered' = Enter(pc')
    /\ UNCHANGED <<run, cfg, typed, conn, rejects, snapshot, secret, stdout, pods>>
    /\ UNCHANGED <<releases, repoFile, cache, jobs, tmp>>
    /\ UNCHANGED svcVars /\ UNCHANGED fnVars

\* installOpenLDAP, first statement: addHelmRepo("helm-openldap", cfg.OpenLDAPRepo)
AddRepo ==
    /\ pc = "AddRepo"
    /\ \E o \in RepoOutcomes :
        LET r == addHelmRepo("helm-openldap", cfg.OpenLDAPRepo, repoFile, cache, o)
        IN  /\ repoFile' = r.repoFile
            /\ cache' = r.cache
            /\ ops' = ops \o r.ops
            /\ err' = IF r.ret # "nil" THEN "failed to add helm repository" ELSE "none"
            /\ pc' = IF r.ret # "nil" THEN "Failed" ELSE "HelmConfig"
    /\ entered' = Enter(pc')
    /\ UNCHANGED <<run, cfg, typed, conn, rejects, snapshot, secret, stdout, pods>>
    /\ UNCHANGED <<namespaces, releases, jobs, tmp>>
    /\ UNCHANGED svcVars /\ UNCHANGED fnVars

\* A step that saves the snapshot as soon as the configuration is complete.
HelmConfig_Snapshot ==
    /\ pc = "HelmConfig"
    /\ \E ok \in BOOLEAN :
        /\ err' = IF ok THEN "none" ELSE "failed to get helm action config"
        /\ pc' = IF ok THEN "Install" ELSE "Failed"
    /\ ops' = ops \o <<"write snapshot", "helm config">>
    /\ snapshot' = [written |-> TRUE, cfg |-> cfg]
    /\ entered' = Enter(pc')
    /\ UNCHANGED <<run, cfg, typed, conn, rejects, secret, stdout, pods>>
    /\ UNCHANGED worldVars /\ UNCHANGED svcVars /\ UNCHANGED fnVars

\* installOpenLDAP: getHelmActionConfig(cfg.Kubeconfig, cfg.Namespace)
HelmConfig ==
    /\ pc = "HelmConfig"
    /\ \E ok \in BOOLEAN :
        /\ err' = IF ok THEN "none" ELSE "failed to get helm action config"
        /\ pc' = IF ok THEN "Install" ELSE "Failed"
    /\ ops' = Append(ops, "helm config")
    /\ entered' = Enter(pc')
    /\ UNCHANGED <<run, cfg, typed, conn, rejects, snapshot, secret, stdout, pods>>
    /\ UNCHANGED worldVars /\ UNCHANGED svcVars /\ UNCHANGED fnVars

\* installOpenLDAP, lines 407-415: the debug lines printed before the
\* install, by the credential that each shows.
DebugValues(c) ==
    {[what |-> "Admin Password", text |-> c.AdminPass],
     [what |-> "Config Password", text |-> c.ConfigPass],
     [what |-> "Helm values JSON adminPassword", text |-> c.AdminPass],
     [what |-> "Helm values JSON configPassword", text |-> c.ConfigPass]}

\* installOpenLDAP: the values, the debug lines, then the fresh install
\* (lines 336-442)
Install ==
    /\ pc = "Install"
    /\ \E o \in InstallOutcomes :
        LET r == FreshInstall(cfg.ReleaseName, ChartRef(cfg), cfg.Namespace,
                              LDAPValues(cfg), releases, namespaces, o)
        IN  /\ releases' = r.releases
            /\ namespaces' = r.namespaces
            /\ ops' = ops \o r.ops
            /\ err' = IF r.ret # "nil" THEN r.ret ELSE "none"
            /\ pc' = IF r.ret # "nil" THEN "Failed" ELSE "PodStatus"
    /\ stdout' = stdout \cup DebugValues(cfg)
    /\ entered' = Enter(pc')
    /\ UNCHANGED <<run, cfg, typed, conn, rejects, snapshot, secret, pods>>
    /\ UNCHANGED <<repoFile, cache, jobs, tmp>>
    /\ UNCHANGED svcVars /\ UNCHANGED fnVars

\* What one get pods command did: its exit status and its standard output.
\* A command that failed is taken with no output and with some.
PodReads ==
    {[exit0 |-> FALSE, raw |-> <<>>], [exit0 |-> FALSE, raw |-> <<"r">>],
     [exit0 |-> TRUE, raw |-> <<>>], [exit0 |-> TRUE, raw |-> <<" ">>],
     [exit0 |-> TRUE, raw |-> <<"r", " ">>]}

NoPods == [read |-> FALSE, exit0 |-> FALSE, raw |-> <<>>, printed |-> <<>>]

\* runOut trims the output; the status is printed when the command succeeded
\* and the trimmed output is not empty (lines 451-454).
PodRead(rd) ==
    LET out == TrimSpace(rd.raw)
    IN  [read |-> TRUE, exit0 |-> rd.exit0, raw |-> rd.raw,
         printed |-> IF rd.exit0 /\ out # <<>> THEN out ELSE <<>>]

\* A pod-status step that gives up when the status cannot be read.
PodStatus_Must ==
    /\ pc = "PodStatus"
    /\ \E rd \in PodReads :
        LET r == PodRead(rd)
        IN  /\ pods' = r
            /\ err' = IF r.printed = <<>> THEN "pods not running" ELSE "none"
            /\ pc' = IF r.printed = <<>> THEN "Failed" ELSE "InstallSecret"
    /\ ops' = Append(ops, "get pods")
    /\ entered' = Enter(pc')
    /\ UNCHANGED <<run, cfg, typed, conn, rejects, snapshot, secret, stdout>>
    /\ UNCHANGED worldVars /\ UNCHANGED svcVars /\ UNCHANGED fnVars

\* installOpenLDAP: the pause and the read of the pod status; whatever the
\* read returns is at most printed.
PodStatus ==
    /\ pc = "PodStatus"
    /\ \E rd \in PodReads : pods' = PodRead(rd)
    /\ err' = "none"
    /\ pc' = "InstallSecret"
    /\ ops' = Append(ops, "get pods")
    /\ entered' = Enter(pc')
    /\ UNCHANGED <<run, cfg, typed, conn, rejects, snapshot, secret, stdout>>
    /\ UNCHANGED worldVars /\ UNCHANGED svcVars /\ UNCHANGED fnVars

\* installOpenLDAP: getActualAdminPassword(cfg), printed if not empty;
\* return nil
InstallSecret ==
    /\ pc = "InstallSecret"
    /\ \E rd \in SecretReads :
        /\ secret' = SecretRead(rd)
        /\ stdout' = stdout \cup PrintActual(getActualAdminPassword(rd))
    /\ err' = "none"
    /\ pc' = "ApplyJob"
    /\ ops' = Append(ops, "get secret")
    /\ entered' = Enter(pc')
    /\ UNCHANGED <<run, cfg, typed, conn, rejects, snapshot, pods>>
    /\ UNCHANGED worldVars /\ UNCHANGED svcVars /\ UNCHANGED fnVars

\* A post-install step that drops the error of the apply.
ApplyJob_Swallow ==
    /\ pc = "ApplyJob"
    /\ \E w \in {"ok", "fail", "partial"}, applied \in BOOLEAN :
        /\ err' = IF w # "ok" \/ ~applied THEN "apply failed" ELSE "none"
        /\ pc' = "Finish"
        /\ ops' = ops \o <<"write tmp", "apply">>
        /\ jobs' = IF w = "ok" /\ applied THEN jobs \cup {cfg.ReleaseName} ELSE jobs
    /\ entered' = Enter(pc')
    /\ UNCHANGED <<run, cfg, typed, conn, rejects, snapshot, secret, stdout, pods>>
    /\ UNCHANGED <<namespaces, releases, repoFile, cache, tmp>>
    /\ UNCHANGED svcVars /\ UNCHANGED fnVars

\* A post-install step that uninstalls the release when the apply fails.
ApplyJob_Rollback ==
    /\ pc = "ApplyJob"
    /\ \E applied \in BOOLEAN :
        /\ err' = IF applied THEN "none" ELSE "apply failed"
        /\ pc' = IF applied THEN "Finish" ELSE "Failed"
        /\ ops' = ops \o <<"write tmp", "apply", "remove tmp">>
        /\ jobs' = IF applied THEN jobs \cup {cfg.ReleaseName} ELSE jobs
        /\ releases' = IF applied THEN releases
                       ELSE [releases EXCEPT ![cfg.ReleaseName] = NoRelease]
    /\ entered' = Enter(pc')
    /\ UNCHANGED <<run, cfg, typed, conn, rejects, snapshot, secret, stdout, pods>>
    /\ UNCHANGED <<namespaces, repoFile, cache, tmp>>
    /\ UNCHANGED svcVars /\ UNCHANGED fnVars

\* must(applyMemberOfJob(cfg)): applyYAML writes the rendered manifest to a
\* temporary file, returns at once if the write fails, and otherwise applies
\* the file and removes it.
ApplyJob ==
    /\ pc = "ApplyJob"
    /\ \E w \in {"ok", "fail", "partial"}, applied \in BOOLEAN :
        IF w # "ok"
            THEN /\ err' = "write of the temporary file failed"
                 /\ pc' = "Failed"
                 /\ ops' = Append(ops, "write tmp")
                 /\ tmp' = IF w = "partial" THEN tmp \cup {run} ELSE tmp
                 /\ jobs' = jobs
        ELSE /\ err' = IF applied THEN "none" ELSE "apply failed"
             /\ pc' = IF applied THEN "Finish" ELSE "Failed"
             /\ ops' = ops \o <<"write tmp", "apply", "remove tmp">>
             /\ tmp' = tmp
             /\ jobs' = IF applied THEN jobs \cup {cfg.ReleaseName} ELSE jobs
    /\ entered' = Enter(pc')
    /\ UNCHANGED <<run, cfg, typed, conn, rejects, snapshot, secret, stdout, pods>>
    /\ UNCHANGED <<namespaces, releases, repoFile, cache>>
    /\ UNCHANGED svcVars /\ UNCHANGED fnVars

\* main, lines 574-581: the hints printed at the end, by the credential that
\* each shows.
Hints(c) ==
    {[what |-> "ldapsearch -w (exec)", text |-> c.AdminPass],
     [what |-> "ldapsearch -w (localhost)", text |-> c.AdminPass],
     [what |-> "Note: admin password", text |-> c.AdminPass]}

\* An end of main that gives up when the secret cannot be read.
Finish_MustSecret ==
    /\ pc = "Finish"
    /\ \E rd \in SecretReads, written \in BOOLEAN :
        LET actual == getActualAdminPassword(rd)
        IN  /\ secret' = SecretRead(rd)
            /\ stdout' = stdout \cup PrintActual(actual)
                              \cup (IF actual # <<>> THEN Hints(cfg) ELSE {})
            /\ snapshot' = IF written /\ actual # <<>>
                               THEN [written |-> TRUE, cfg |-> cfg] ELSE snapshot
            /\ err' = IF actual # <<>> THEN "none" ELSE "secret not found"
            /\ pc' = IF actual # <<>> THEN "Done" ELSE "Failed"
            /\ ops' = ops \o (IF actual # <<>> THEN <<"get secret", "write snapshot">>
                               ELSE <<"get secret">>)
    /\ entered' = Enter(pc')
    /\ UNCHANGED <<run, cfg, typed, conn, rejects, pods>>
    /\ UNCHANGED worldVars /\ UNCHANGED svcVars /\ UNCHANGED fnVars

\* main, lines 565-584: getActualAdminPassword(cfg), printed if not empty,
\* the hints, and the snapshot, whose write error is dropped.
Finish ==
    /\ pc = "Finish"
    /\ \E rd \in SecretReads, written \in BOOLEAN :
        /\ secret' = SecretRead(rd)
        /\ stdout' = stdout \cup PrintActual(getActualAdminPassword(rd)) \cup Hints(cfg)
        /\ snapshot' = IF written THEN [written |-> TRUE, cfg |-> cfg] ELSE snapshot
    /\ err' = "none"
    /\ pc' = "Done"
    /\ ops' = ops \o <<"get secret", "write snapshot">>
    /\ entered' = Enter(pc')
    /\ UNCHANGED <<run, cfg, typed, conn, rejects, pods>>
    /\ UNCHANGED worldVars /\ UNCHANGED svcVars /\ UNCHANGED fnVars

\* The binary is started again on the same machine against the same cluster.
Restart ==
    /\ pc \in {"Done", "Failed"}
    /\ run < MaxRuns
    /\ run' = run + 1
    /\ pc' = "CheckDeps"
    /\ cfg' = InitialConfig
    /\ typed' = NoTyped
    /\ conn' = NoConn
    /\ err' = "none"
    /\ rejects' = 0
    /\ ops' = <<>>
    /\ entered' = <<>>
    /\ secret' = NoSecret
    /\ stdout' = {}
    /\ pods' = NoPods
    /\ UNCHANGED snapshot
    /\ UNCHANGED worldVars /\ UNCHANGED svcVars /\ UNCHANGED fnVars

---------------------------------------------------------------------------
(* The machine and the cluster before the first run.                       *)

OtherEntry == Entry("gitlab", "https://charts.gitlab.io/")

\* The registration file before the first run: absent; not loadable, empty
\* or with the entry of another repository in its text (a file that does not
\* parse as a whole, or that cannot be read); or loadable.
InitialRepoFiles ==
    {AbsentFile,
     [kind |-> "corrupt", entries |-> <<>>],
     [kind |-> "corrupt", entries |-> <<OtherEntry>>],
     [kind |-> "ok", entries |-> <<>>],
     [kind |-> "ok", entries |-> <<OtherEntry>>]}

WorldInit ==
    /\ namespaces \in {{}, {"infra"}}
    /\ releases = [n \in ReleaseNames |-> NoRelease]
    /\ repoFile \in InitialRepoFiles
    /\ cache = [n \in RepoNames |-> NoCache]
    /\ jobs = {}
    /\ tmp = {}

RunIdle ==
    /\ run = 1
    /\ cfg = InitialConfig
    /\ typed = NoTyped
    /\ conn = NoConn
    /\ err = "none"
    /\ rejects = 0
    /\ ops = <<>>
    /\ entered = <<>>
    /\ snapshot = NoSnapshot
    /\ secret = NoSecret
    /\ stdout = {}
    /\ pods = NoPods

SvcIdle == call = NoCall /\ reg = NoReg
FnIdle == fnIn = EmptyCIDR /\ fnOut = "none"

Init ==
    /\ pc = "CheckDeps"
    /\ RunIdle
    /\ WorldInit
    /\ SvcIdle
    /\ FnIdle

Next ==
    \/ CheckDeps
    \/ AskCIDR
    \/ AskDomain
    \/ AskAdminPass
    \/ AskConfigPass
    \/ Connect
    \/ EnsureNS
    \/ AddRepo
    \/ HelmConfig
    \/ Install
    \/ PodStatus
    \/ InstallSecret
    \/ ApplyJob
    \/ Finish
    \/ Restart

Spec == Init /\ [][Next]_vars

---------------------------------------------------------------------------
(* Claims about a run of main (specification Spec).                        *)

\* What it means for a stage to have succeeded, read off the state it leaves.
StageSucceeded(s) ==
    CASE s = "Validating" ->
            /\ validateCIDR(cfg.NetworkCIDR) = "nil"
            /\ cfg.Domain # <<>>
            /\ cfg.AdminPass # <<>>
      [] s = "ConnectingCluster" ->
            conn.done /\ conn.exit0 /\ TrimSpace(conn.raw) # <<>>
      [] s = "EnsuringNamespace" -> "create ns" \in Range(ops)
      [] s = "ResolvingRepository" ->
            /\ repoFile.kind = "ok"
            /\ Entry("helm-openldap", cfg.OpenLDAPRepo) \in Range(repoFile.entries)
            /\ cache["helm-openldap"].present
      [] s = "Installing" ->
            /\ releases[cfg.ReleaseName].status = "deployed"
            /\ releases[cfg.ReleaseName].values = LDAPValues(cfg)
      [] s = "PostInstalling" -> cfg.ReleaseName \in jobs
      [] s = "RetrievingCredential" -> "write snapshot" \in Range(ops)
      [] OTHER -> FALSE

\* The stages of the run so far, a final Failed left out.
EnteredStages ==
    IF entered # <<>> /\ entered[Len(entered)] = "Failed"
        THEN SubSeq(entered, 1, Len(entered) - 1)
    ELSE entered

MutatingOps == {"create ns", "write cache", "write repofile", "helm install", "apply"}

\* C3: a run that has issued a mutating operation has a network block that
\* passes validation, a non-empty domain and admin credential, and a
\* connectivity check that exited zero with non-empty output.
C3_NoMutationBeforeGates ==
    (Range(ops) \cap MutatingOps # {}) =>
        /\ validateCIDR(cfg.NetworkCIDR) = "nil"
        /\ cfg.Domain # <<>>
        /\ cfg.AdminPass # <<>>
        /\ conn.done /\ conn.exit0 /\ conn.raw # <<>>

C3_Witness == "apply" \in Range(ops) /\ "write cache" \in Range(ops)

\* The non-empty dot-separated labels of a domain.
Labels(d) == NonEmpty(Split(d, "."))

\* C9: from Installing on, the base identifier is "dc=" followed by the
\* non-empty labels of the domain joined by ",dc=".
C9_BaseIdentifier ==
    StageOf(pc) \in {"Installing", "PostInstalling", "RetrievingCredential", "Done"} =>
        cfg.BaseDN = DC \o Join(Labels(cfg.Domain), <<",">> \o DC)

\* C10: once the prompts are done the admin credential is not empty, the
\* secondary credential is the operator's entry (surrounding blanks aside)
\* when that entry is not blank and the admin credential when it is.
C10_Credentials ==
    StageOf(pc) \notin {"Starting", "Validating", "Failed"} =>
        /\ cfg.AdminPass # <<>>
        /\ cfg.ConfigPass # <<>>
        /\ cfg.ConfigPass = IF TrimSpace(typed.config) # <<>>
                                THEN TrimSpace(typed.config)
                            ELSE cfg.AdminPass

\* The byte of a printable character.
Ord(c) == FirstPrintable - 1 + CHOOSE i \in 1..Len(ASCII) : ASCII[i] = c

\* The base64 text of a plaintext of one or two characters.
Encoded(t) ==
    LET b1 == Ord(t[1])
    IN  IF Len(t) = 1
            THEN <<encodeStd[(b1 \div 4) + 1], encodeStd[(b1 % 4) * 16 + 1], "=", "=">>
        ELSE LET b2 == Ord(t[2])
             IN  <<encodeStd[(b1 \div 4) + 1],
                   encodeStd[(b1 % 4) * 16 + (b2 \div 16) + 1],
                   encodeStd[(b2 % 16) * 4 + 1], "=">>

Plaintexts == {<<"p">>, <<"q">>, <<"p", "q">>, <<"q", "p">>}

\* No base64 text: not a whole number of quanta, or a character that is
\* neither of the alphabet nor the padding.
Undecodable(v) ==
    \/ Len(v) % 4 # 0
    \/ \E i \in 1..Len(v) : ~IsB64(v[i]) /\ v[i] # "="

\* C12: a read of the secret returns the plaintext whose base64 text the
\* command printed, and the empty string when the command failed, printed
\* nothing or printed no base64 text; and a run that has entered the
\* credential retrieval is there or is Done, never Failed.
C12_SecretReadNeverFails ==
    /\ secret.read =>
           LET out == TrimSpace(secret.raw)
           IN  /\ \A t \in Plaintexts :
                      (secret.exit0 /\ out = Encoded(t)) => secret.actual = t
               /\ (~secret.exit0 \/ out = <<>> \/ Undecodable(out)) => secret.actual = <<>>
    /\ "RetrievingCredential" \in Range(entered) => pc \in {"Finish", "Done"}

\* A run is Done after a last read that returned a decoded plaintext.
C12_Witness ==
    /\ pc = "Done"
    /\ secret.read
    /\ secret.actual = <<"p", "q">>

\* A run is Done after a last read of something that does not decode.
C12_WitnessFailure ==
    /\ pc = "Done"
    /\ secret.read
    /\ secret.exit0
    /\ Undecodable(TrimSpace(secret.raw))

\* The positions of main up to the install call.
BeforeInstalled == {"CheckDeps", "AskCIDR", "AskDomain", "AskAdminPass",
                    "AskConfigPass", "Connect", "EnsureNS", "AddRepo",
                    "HelmConfig", "Install"}

\* The release of the run is there and the run has not passed its install
\* call: the run was started against a cluster that had the release.
StartedOnRelease ==
    /\ pc \in BeforeInstalled
    /\ releases[cfg.ReleaseName].status # "none"

\* C13: a run started against a cluster that has the release never changes
\* the release and never passes its install call; its install call is
\* refused and the run ends Failed at Installing, so PostInstalling is never
\* reached.
C13_SecondRunFailsAtInstalling ==
    [][StartedOnRelease =>
          /\ releases' = releases
          /\ pc' \in BeforeInstalled \cup {"Failed"}
          /\ pc = "Install" =>
                /\ pc' = "Failed"
                /\ err' \in {"failed to locate chart", "failed to load chart",
                             "failed to install chart"}
                /\ entered' = Append(entered, "Failed")
                /\ entered[Len(entered)] = "Installing"]_vars

\* The second run has ended Failed at Installing on the refused install of a
\* release that the first run deployed.
C13_Witness ==
    /\ run = 2
    /\ pc = "Failed"
    /\ err = "failed to install chart"
    /\ "helm install" \in Range(ops)
    /\ releases[cfg.ReleaseName].status = "deployed"
    /\ jobs = {}

\* The same after a first run that ended Done.
C13_WitnessAfterDone ==
    /\ run = 2
    /\ pc = "Failed"
    /\ err = "failed to install chart"
    /\ "helm install" \in Range(ops)
    /\ releases[cfg.ReleaseName].status = "deployed"
    /\ jobs = {cfg.ReleaseName}
    /\ snapshot.written

\* The operations that a run issues: reads, creations and writes, and the
\* removal of the temporary manifest that the run itself wrote.
IssuedOps ==
    {"docker version", "get nodes", "create ns", "download index", "curl",
     "mkdir cache", "write cache",
     "write repofile", "helm config", "locate chart", "load chart",
     "helm install", "get pods", "get secret", "write tmp", "apply",
     "remove tmp", "write snapshot"}

\* C14: no step of a run undoes an effect: a namespace stays, a release
\* record stays as it is, an applied job stays, the cache and the
\* registration file change only in the repository step itself, nothing
\* changes once the run is Failed, and no operation other than the issued
\* ones (none of which deletes, uninstalls or rolls back a cluster resource
\* or a repository file) is issued.
C14_NoRollback ==
    [][/\ namespaces \subseteq namespaces'
       /\ \A n \in ReleaseNames :
              releases[n].status # "none" => releases'[n] = releases[n]
       /\ jobs \subseteq jobs'
       /\ pc # "AddRepo" => (repoFile' = repoFile /\ cache' = cache)
       /\ pc = "Failed" => UNCHANGED worldVars
       /\ Range(ops') \subseteq IssuedOps]_vars

\* A run has ended Failed at PostInstalling and the namespace, the cache, the
\* registration and the release of the completed stages are all there.
C14_Witness ==
    /\ pc = "Failed"
    /\ err = "apply failed"
    /\ cfg.Namespace \in namespaces
    /\ releases[cfg.ReleaseName].status = "deployed"
    /\ cache["helm-openldap"] # NoCache
    /\ repoFile.kind = "ok"
    /\ \E i \in 1..Len(repoFile.entries) : repoFile.entries[i].Name = "helm-openldap"

\* The number of "write snapshot" operations in a sequence of operations.
SnapshotWrites(o) == Cardinality({i \in 1..Len(o) : o[i] = "write snapshot"})

\* C15: the snapshot is written, and its file changes, only in the step that
\* ends a run Done after every stage through the credential retrieval has
\* been entered in order; what the file then holds is the configuration of
\* the run, whose base identifier is the one derived from its domain and
\* whose two credentials are not empty; and a Failed run has issued no write
\* of it.
C15_SnapshotOnlyOnSuccess ==
    /\ [](pc = "Failed" => SnapshotWrites(ops) = 0)
    /\ [][(snapshot' # snapshot \/ SnapshotWrites(ops') > SnapshotWrites(ops)) =>
              /\ pc = "Finish"
              /\ pc' = "Done"
              /\ entered = SubSeq(StageOrder, 1, 7)
              /\ snapshot' \in {snapshot, [written |-> TRUE, cfg |-> cfg]}
              /\ cfg.BaseDN = baseDNFromDomain(cfg.Domain)
              /\ cfg.AdminPass # <<>>
              /\ cfg.ConfigPass # <<>>]_vars

\* A run is Done and the file holds its configuration.
C15_Witness ==
    /\ pc = "Done"
    /\ snapshot.written
    /\ snapshot.cfg = cfg
    /\ snapshot.cfg.BaseDN = <<"d", "c", "=", "a", ",", "d", "c", "=", "b">>
    /\ snapshot.cfg.ConfigPass # snapshot.cfg.AdminPass

\* A second run has ended Failed and the file still holds what the first run
\* wrote.
C15_WitnessFailedAfterDone ==
    /\ run = 2
    /\ pc = "Failed"
    /\ snapshot.written
    /\ snapshot.cfg # cfg

\* C16: no line that the run has printed shows the admin credential that
\* the operator supplied.
C16_AdminCredentialNeverPrinted ==
    \A l \in stdout : l.text # cfg.AdminPass

\* The positions of main in the order of its statements; Done and Failed
\* are the two ends of a run.
Positions ==
    <<"CheckDeps", "AskCIDR", "AskDomain", "AskAdminPass", "AskConfigPass",
      "Connect", "EnsureNS", "AddRepo", "HelmConfig", "Install", "PodStatus",
      "InstallSecret", "ApplyJob", "Finish">>

Rank(p) ==
    IF p \in {"Done", "Failed"} THEN Len(Positions) + 1
    ELSE CHOOSE i \in 1..Len(Positions) : Positions[i] = p

\* C18: every run terminates, in its finite form: every step of a run that
\* has not ended moves it to a later position, so that a run ends Done or
\* Failed within as many steps as main has positions, whatever the operator
\* enters (an empty read is what the prompt returns at end of input) and
\* whatever the external calls return.
C18_EveryStepAdvances ==
    [][pc \notin {"Done", "Failed"} => Rank(pc') > Rank(pc)]_vars

\* C19: a run that has issued a read of the secret has applied the
\* post-install manifest before it, with success: the read is the one that
\* ends the run Done.
C19_SecretReadOnlyAfterPostInstall ==
    (secret.read \/ "get secret" \in Range(ops)) =>
        /\ pc = "Done"
        /\ \A i \in 1..Len(ops) :
               ops[i] = "get secret" => \E j \in 1..(i - 1) : ops[j] = "apply"

\* C21: whenever applyYAML is not running, no temporary manifest that it
\* created exists: each call has removed its file before it returned, by
\* success or by error.
C21_TemporaryFileRemoved ==
    tmp = {}

\* C22: the namespace step never fails the run: whatever the request does,
\* the run goes on to the repository step with no error; the request at most
\* adds the namespace of the run, and leaves the namespaces as they are when
\* that namespace is already there.
C22_EnsureNamespaceNeverFails ==
    [][pc = "EnsureNS" =>
          /\ pc' = "AddRepo"
          /\ err' = "none"
          /\ entered' = Append(entered, "ResolvingRepository")
          /\ namespaces' \in {namespaces, namespaces \cup {cfg.Namespace}}
          /\ cfg.Namespace \in namespaces => namespaces' = namespaces]_vars

\* The request has failed for a namespace that is not there, and the run is
\* at the repository step.
C22_Witness ==
    /\ pc = "AddRepo"
    /\ ops[Len(ops)] = "create ns"
    /\ cfg.Namespace \notin namespaces

\* The request was made in a second run for the namespace that the first run
\* created.
C22_WitnessExisting ==
    /\ run = 2
    /\ pc = "AddRepo"
    /\ ops[Len(ops)] = "create ns"
    /\ cfg.Namespace \in namespaces

\* C23: the pod status is read only in the step that follows an install
\* that succeeded in this run (the release was not there and is deployed);
\* and whatever the read does, the step leaves the cluster and the files as
\* they are, produces no error, and the run goes on inside the install stage.
C23_PodStatusBestEffort ==
    [][/\ pc' = "PodStatus" =>
              /\ pc = "Install"
              /\ err' = "none"
              /\ releases[cfg.ReleaseName].status = "none"
              /\ releases'[cfg.ReleaseName].status = "deployed"
              /\ ~pods'.read
       /\ (pods' # pods /\ pods'.read) => pc = "PodStatus"
       /\ pc = "PodStatus" =>
              /\ pods'.read
              /\ pc' = "InstallSecret"
              /\ err' = "none"
              /\ entered' = entered
              /\ UNCHANGED worldVars]_vars

\* The read of the pod status failed and the run has ended Done.
C23_Witness ==
    /\ pc = "Done"
    /\ pods.read
    /\ ~pods.exit0
    /\ pods.printed = <<>>
    /\ releases[cfg.ReleaseName].status = "deployed"

\* The read returned nothing but blanks and the run went on.
C23_WitnessEmpty ==
    /\ pc = "InstallSecret"
    /\ pods.read
    /\ pods.exit0
    /\ pods.raw = <<" ">>

\* C24: a run has ended Failed for want of an admin credential only when
\* the operator's entry at that prompt was empty or blank.
C24_VisibleFallback ==
    (pc = "Failed" /\ err = "admin password required") =>
        TrimSpace(typed.admin) = <<>>

---------------------------------------------------------------------------
(* The HelmManager and the two services, called in any order by a program  *)
(* that links them (SpecRepo and SpecInstall).  Each call is one step.     *)

\* A HelmManager.AddRepository that gives up when the direct download fails.
AddRepository_NoFallback(name, url, f, c, o) ==
    IF ~ValidURL(url)
        THEN [ret |-> "failed to create chart repository", repoFile |-> f,
              cache |-> c, ops |-> <<>>]
    ELSE IF ~o.direct
        THEN [ret |-> "failed to download index file", repoFile |-> f,
              cache |-> c, ops |-> <<"download index">>]
    ELSE Register(name, url, f,
                  [c EXCEPT ![name] = [present |-> TRUE, url |-> url, doc |-> "index"]],
                  o, <<"download index", "write cache">>)

\* HelmManager.AddRepository (helm.go): the same statements as addHelmRepo.
AddRepository(name, url, f, c, o) ==
    IF ~ValidURL(url)
        THEN [ret |-> "failed to create chart repository", repoFile |-> f,
              cache |-> c, ops |-> <<>>]
    ELSE IF o.direct
        THEN Register(name, url, f,
                      [c EXCEPT ![name] = [present |-> TRUE, url |-> url, doc |-> "index"]],
                      o, <<"download index", "write cache">>)
    ELSE IF o.curl = "err"
        THEN [ret |-> "failed to download index file locally", repoFile |-> f,
              cache |-> c, ops |-> <<"download index", "curl">>]
    ELSE IF ~o.mkdir
        THEN [ret |-> "failed to create cache directory", repoFile |-> f,
              cache |-> c, ops |-> <<"download index", "curl", "mkdir cache">>]
    ELSE IF ~o.wcache
        THEN [ret |-> "failed to write index file", repoFile |-> f,
              cache |-> c, ops |-> <<"download index", "curl", "mkdir cache", "write cache">>]
    ELSE Register(name, url, f,
                  [c EXCEPT ![name] = [present |-> TRUE, url |-> url, doc |-> o.curl]],
                  o, <<"download index", "curl", "mkdir cache", "write cache">>)

\* A values tree whose root is the domain and not the base identifier.
OLS_buildHelmValues_DomainRoot(c) ==
    [kind |-> "openldap",
     ldapDomain |-> c.Domain, adminPassword |-> c.AdminPass,
     configPassword |-> c.ConfigPass, domain |-> c.Domain, root |-> c.Domain]

\* OpenLDAPService.buildHelmValues: the same tree as in installOpenLDAP.
OLS_buildHelmValues(c) ==
    [kind |-> "openldap",
     ldapDomain |-> c.Domain, adminPassword |-> c.AdminPass,
     configPassword |-> c.ConfigPass, domain |-> c.Domain, root |-> c.BaseDN]

\* A values tree whose issuer annotation follows the HTTPS gate alone.
GitLab_buildHelmValues_NoEmailGate(g) ==
    [kind |-> "gitlab",
     domain |-> g.Domain, hostname |-> g.Hostname, https |-> g.EnableHTTPS,
     optional |->
         (IF g.SMTPEnabled THEN {"global.smtp"} ELSE {})
         \cup (IF g.EnableHTTPS THEN {"global.ingress.annotations"} ELSE {})
         \cup (IF g.StorageClass # "" THEN {"global.storageClass"} ELSE {})]

\* GitLabService.buildHelmValues: the leaves taken from the GitLab
\* configuration and the optional sub-trees that are present.
GitLab_buildHelmValues(g) ==
    [kind |-> "gitlab",
     domain |-> g.Domain, hostname |-> g.Hostname, https |-> g.EnableHTTPS,
     optional |->
         (IF g.SMTPEnabled THEN {"global.smtp"} ELSE {})
         \cup (IF g.EnableHTTPS /\ g.CertManagerEmail # ""
                  THEN {"global.ingress.annotations"} ELSE {})
         \cup (IF g.StorageClass # "" THEN {"global.storageClass"} ELSE {})]

\* The result of a call that stopped in its repository step.
RepoFailed(msg, r, rels, nss) ==
    [ret |-> msg, repoRet |-> r.ret, repoFile |-> r.repoFile, cache |-> r.cache,
     releases |-> rels, namespaces |-> nss, ops |-> r.ops]

\* The result of a call whose install step returned i, with the error msg if
\* it failed and the operations after if it did not.
Installed(msg, r, i, after) ==
    [ret |-> IF i.ret # "nil" THEN msg ELSE "nil",
     repoRet |-> r.ret, repoFile |-> r.repoFile, cache |-> r.cache,
     releases |-> i.releases, namespaces |-> i.namespaces,
     ops |-> r.ops \o i.ops \o (IF i.ret # "nil" THEN <<>> ELSE after)]

\* installOpenLDAP (main.go) as one call.
installOpenLDAP(c, f, ch, rels, nss, o, haveConfig, io) ==
    LET r == addHelmRepo("helm-openldap", c.OpenLDAPRepo, f, ch, o)
    IN  IF r.ret # "nil" THEN RepoFailed("failed to add helm repository", r, rels, nss)
        ELSE IF ~haveConfig
            THEN [RepoFailed("failed to get helm action config", r, rels, nss)
                      EXCEPT !.ops = r.ops \o <<"helm config">>]
        ELSE LET i == FreshInstall(c.ReleaseName, ChartRef(c), c.Namespace,
                                   LDAPValues(c), rels, nss, io)
             IN  Installed(i.ret,
                           [r EXCEPT !.ops = r.ops \o <<"helm config">>], i,
                           <<"get pods", "get secret">>)

\* OpenLDAPService.Install
OLS_Install(c, f, ch, rels, nss, o, io) ==
    LET r == AddRepository("helm-openldap", c.OpenLDAPRepo, f, ch, o)
    IN  IF r.ret # "nil" THEN RepoFailed("failed to add helm repository", r, rels, nss)
        ELSE LET i == InstallChart(c.ReleaseName, ChartRef(c), c.Namespace,
                                   OLS_buildHelmValues(c), rels, nss, io)
             IN  Installed("failed to install OpenLDAP chart", r, i,
                           <<"get pods", "get secret">>)

\* GitLabService.Install
GitLab_Install(c, g, f, ch, rels, nss, o, io) ==
    LET r == AddRepository("gitlab", "https://charts.gitlab.io/", f, ch, o)
    IN  IF r.ret # "nil" THEN RepoFailed("failed to add GitLab helm repository", r, rels, nss)
        ELSE LET i == InstallChart("gitlab", <<"gitlab/gitlab">>, c.Namespace,
                                   GitLab_buildHelmValues(g), rels, nss, io)
             IN  Installed("failed to install GitLab chart", r, i, <<"get pods">>)

\* The configurations and arguments that the calling program passes.
SvcConfigs ==
    {[InitialConfig EXCEPT !.Domain = <<"a", ".", "b">>,
                           !.BaseDN = baseDNFromDomain(<<"a", ".", "b">>),
                           !.AdminPass = pw, !.ConfigPass = pw] :
        pw \in {<<"p">>, <<"q">>}}

SvcConfig == CHOOSE c \in SvcConfigs : c.AdminPass = <<"p">>

GitLabConfigs ==
    [Domain : {"example.com"}, Hostname : {"gitlab.example.com"},
     SMTPEnabled : BOOLEAN, EnableHTTPS : BOOLEAN,
     CertManagerEmail : {"", "ops@example.com"}, StorageClass : {""}]

SvcGitLabConfigs ==
    {g \in GitLabConfigs : g.SMTPEnabled = g.EnableHTTPS /\ g.CertManagerEmail # ""}

SvcURLs ==
    {"https://jp-gouin.github.io/helm-openldap/", "https://mirror.example/charts", "::bad"}

InstallOK == [locate |-> TRUE, load |-> TRUE, run |-> "ok"]

\* The effect of a completed call: the files and the cluster as the call left
\* them, the record of the call, and what the registrations so far amount to.
Complete(fn, name, url, rel, values, o, res) ==
    /\ call.seq < MaxCalls
    /\ repoFile' = res.repoFile
    /\ cache' = res.cache
    /\ releases' = res.releases
    /\ namespaces' = res.namespaces
    /\ call' = [seq |-> call.seq + 1, fn |-> fn, name |-> name, url |-> url,
                rel |-> rel, values |-> values, o |-> o,
                repoRet |-> res.repoRet, ret |-> res.ret, ops |-> res.ops]
    /\ reg' = IF res.repoRet = "none" THEN reg
              ELSE IF res.repoRet # "nil" THEN [reg EXCEPT !.allOk = FALSE]
              ELSE [reg EXCEPT !.last[name] = url,
                               !.changed = IF reg.last[name] \notin {"", url}
                                               THEN @ \cup {name} ELSE @]
    /\ UNCHANGED <<pc, jobs, tmp>> /\ UNCHANGED runVars /\ UNCHANGED fnVars

\* A call of HelmManager.AddRepository.  (In the calls below a step that is
\* not reached has its first outcome only.)
SvcAddRepository ==
    \E name \in RepoNames, url \in SvcURLs, o \in RepoOutcomes :
        LET r == AddRepository(name, url, repoFile, cache, o)
        IN  /\ ~ValidURL(url) => o = DirectOK
            /\ Complete("HelmManager.AddRepository", name, url, "", NoValues, o,
                        RepoFailed(r.ret, r, releases, namespaces))

\* A call of addHelmRepo.
SvcAddHelmRepo ==
    \E name \in RepoNames, url \in SvcURLs, o \in RepoOutcomes :
        LET r == addHelmRepo(name, url, repoFile, cache, o)
        IN  /\ ~ValidURL(url) => o = DirectOK
            /\ Complete("addHelmRepo", name, url, "", NoValues, o,
                        RepoFailed(r.ret, r, releases, namespaces))

\* A call of HelmManager.InstallChart.
SvcInstallChart ==
    \E rel \in ReleaseNames, c \in SvcConfigs, io \in InstallOutcomes :
        LET i == InstallChart(rel, ChartRef(c), c.Namespace, OLS_buildHelmValues(c),
                              releases, namespaces, io)
        IN  Complete("HelmManager.InstallChart", "", "", rel, OLS_buildHelmValues(c), DirectOK,
                     [ret |-> i.ret, repoRet |-> "none", repoFile |-> repoFile,
                      cache |-> cache, releases |-> i.releases,
                      namespaces |-> i.namespaces, ops |-> i.ops])

\* A call of installOpenLDAP.
SvcInstallOpenLDAP ==
    \E o \in RepoOutcomes, haveConfig \in BOOLEAN, io \in InstallOutcomes :
        LET c == SvcConfig
            res == installOpenLDAP(c, repoFile, cache, releases, namespaces, o, haveConfig, io)
        IN  /\ res.repoRet # "nil" => (haveConfig /\ io = InstallOK)
            /\ ~haveConfig => io = InstallOK
            /\ Complete("installOpenLDAP", "helm-openldap", c.OpenLDAPRepo, c.ReleaseName,
                        LDAPValues(c), o, res)

\* A call of OpenLDAPService.Install.
SvcOLSInstall ==
    \E o \in RepoOutcomes, io \in InstallOutcomes :
        LET c == SvcConfig
            res == OLS_Install(c, repoFile, cache, releases, namespaces, o, io)
        IN  /\ res.repoRet # "nil" => io = InstallOK
            /\ Complete("OpenLDAPService.Install", "helm-openldap", c.OpenLDAPRepo,
                        c.ReleaseName, OLS_buildHelmValues(c), o, res)

\* A call of GitLabService.Install.
SvcGitLabInstall ==
    \E g \in SvcGitLabConfigs, o \in RepoOutcomes, io \in InstallOutcomes :
        LET c == SvcConfig
            res == GitLab_Install(c, g, repoFile, cache, releases, namespaces, o, io)
        IN  /\ res.repoRet # "nil" => io = InstallOK
            /\ Complete("GitLabService.Install", "gitlab", "https://charts.gitlab.io/",
                        "gitlab", GitLab_buildHelmValues(g), o, res)

InitSvc ==
    /\ pc = "Svc"
    /\ RunIdle
    /\ WorldInit
    /\ SvcIdle
    /\ FnIdle

NextRepo ==
    \/ SvcAddRepository
    \/ SvcAddHelmRepo

NextInstall ==
    \/ SvcInstallChart
    \/ SvcInstallOpenLDAP
    \/ SvcOLSInstall
    \/ SvcGitLabInstall

\* Any sequence of registrations.
SpecRepo == InitSvc /\ [][NextRepo]_vars

\* Any sequence of install calls.
SpecInstall == InitSvc /\ [][NextInstall]_vars

---------------------------------------------------------------------------
(* Claims about the install calls (SpecInstall).                           *)

\* The errors of the install step, bare and as the services wrap them.
InstallErrors ==
    {"failed to locate chart", "failed to load chart", "failed to install chart",
     "failed to install OpenLDAP chart", "failed to install GitLab chart"}

\* C4: a call that reaches its install step with a release name that already
\* has a release returns an install error and leaves every release as it
\* was, whatever calls came before and on either install path.
C4_ExistingReleaseRefused ==
    [][(/\ call'.seq = call.seq + 1
        /\ "locate chart" \in Range(call'.ops)
        /\ releases[call'.rel].status # "none")
           => (call'.ret \in InstallErrors /\ releases' = releases)]_vars

\* A second install under the name of a deployed release, with other values,
\* got as far as the install itself and was refused.
C4_Witness ==
    /\ call.seq = 2
    /\ "helm install" \in Range(call.ops)
    /\ call.ret \in InstallErrors
    /\ releases[call.rel].status = "deployed"
    /\ releases[call.rel].values # call.values

\* C7: when the direct download fails and the GET of <url>/index.yaml does
\* not deliver the index, the registration returns an error, the cache and
\* the registration file stay as they were, and the install is not attempted.
C7_FallbackFailureIsHard ==
    [][(/\ call'.seq = call.seq + 1
        /\ "curl" \in Range(call'.ops)
        /\ call'.o.curl # "index")
           => (/\ call'.repoRet # "nil"
               /\ call'.ret # "nil"
               /\ repoFile' = repoFile
               /\ cache' = cache
               /\ "locate chart" \notin Range(call'.ops))]_vars

---------------------------------------------------------------------------
(* Claims about the registrations (SpecRepo).                              *)

EntriesOf(n) == {j \in 1..Len(repoFile.entries) : repoFile.entries[j].Name = n}

\* C5: while every registration so far has succeeded, the registration file
\* holds exactly one entry for each name registered, and that entry carries
\* the URL of the latest call for the name.
C5_RegistrationIsUpsert ==
    (call.seq > 0 /\ reg.allOk) =>
        /\ repoFile.kind = "ok"
        /\ \A n \in RepoNames :
               reg.last[n] # "" =>
                   /\ Cardinality(EntriesOf(n)) = 1
                   /\ \A j \in EntriesOf(n) : repoFile.entries[j].URL = reg.last[n]

\* The same name has been registered twice, with two URLs, both times with
\* success.
C5_Witness ==
    /\ call.seq = 2
    /\ reg.allOk
    /\ call.name \in reg.changed
    /\ Cardinality(EntriesOf(call.name)) = 1

\* C6: in a call that tried the direct download, the fallback fetch is made
\* exactly when the direct download failed; and a call that returns nil
\* after a failed direct download leaves the cache file of the name holding
\* what was fetched and the registration file holding the entry.
C6_FallbackOnDirectFailure ==
    (call.seq > 0 /\ "download index" \in Range(call.ops)) =>
        /\ ("curl" \in Range(call.ops)) <=> ~call.o.direct
        /\ (~call.o.direct /\ call.ret = "nil") =>
               /\ cache[call.name] = [present |-> TRUE, url |-> call.url, doc |-> call.o.curl]
               /\ repoFile.kind = "ok"
               /\ \E j \in 1..Len(repoFile.entries) :
                      repoFile.entries[j] = Entry(call.name, call.url)

\* The direct download failed, the fallback fetched the index, and the call
\* returned nil.
C6_Witness ==
    /\ call.seq > 0
    /\ ~call.o.direct
    /\ call.o.curl = "index"
    /\ call.ret = "nil"
    /\ cache[call.name].doc = "index"

\* C20: a registration call that returns nil keeps every entry that the
\* text of the registration file held under another name, with its URL; and
\* it returns nil only when the file was absent or could be loaded.
C20_OtherEntriesKept ==
    [][(call'.seq # call.seq /\ call'.ret = "nil") =>
          /\ \A j \in 1..Len(repoFile.entries) :
                 repoFile.entries[j].Name # call'.name =>
                     \E m \in 1..Len(repoFile'.entries) :
                         repoFile'.entries[m] = repoFile.entries[j]
          /\ repoFile.kind \in {"absent", "ok"}]_vars

---------------------------------------------------------------------------
(* validateCIDR on its own (SpecCIDR).                                     *)

CIDRSamples ==
    {EmptyCIDR, MalformedCIDR}
    \cup {V4(<<a, b, c, d>>, ones) :
            a \in {10, 11, 172, 192}, b \in {0, 16, 32, 168, 169},
            c \in {0, 100}, d \in {0, 1}, ones \in 0..32}

CallValidateCIDR ==
    /\ pc = "Fn"
    /\ fnOut = "none"
    /\ fnOut' = validateCIDR(fnIn)
    /\ UNCHANGED <<pc, fnIn>>
    /\ UNCHANGED runVars /\ UNCHANGED worldVars /\ UNCHANGED svcVars

InitCIDR ==
    /\ pc = "Fn"
    /\ RunIdle
    /\ WorldInit /\ namespaces = {} /\ repoFile = AbsentFile
    /\ SvcIdle
    /\ fnIn \in CIDRSamples
    /\ fnOut = "none"

NextCIDR == CallValidateCIDR

SpecCIDR == InitCIDR /\ [][NextCIDR]_vars

\* Every address of the network n lies in the range r.
NetworkInside(n, r) == n.ones >= r.ones /\ Contains(r, n.IP)

\* C8: an IPv4 entry is accepted exactly if its address is its network
\* address, its prefix length is at most 24, and the whole network lies in
\* 10.0.0.0/8, 172.16.0.0/12 or 192.168.0.0/16.
C8_AcceptsExactlyPrivateNetworks ==
    (fnOut # "none" /\ fnIn.kind = "v4") =>
        (fnOut = "nil" <=>
            /\ fnIn.ip = MaskIP(fnIn.ip, fnIn.ones)
            /\ fnIn.ones <= 24
            /\ \E r \in {private10, private172, private192} :
                   NetworkInside([IP |-> fnIn.ip, ones |-> fnIn.ones], r))

---------------------------------------------------------------------------
(* applyMemberOfJob on its own (SpecRender).  A document is a sequence of  *)
(* symbols: a placeholder token, a stretch of the template's fixed text,   *)
(* or one character of a value.  A value that an operator types may spell  *)
(* a token; a base identifier cannot, because a token holds a dot and      *)
(* baseDNFromDomain splits at the dots.                                    *)

Placeholders == {"{{.ReleaseName}}", "{{.Namespace}}", "{{.BaseDN}}", "{{.AdminPass}}"}

\* assets/memberof-job.yaml.tmpl: a job manifest that names the release and
\* the namespace and binds as the admin under the base identifier.
memberOfJobYAML ==
    <<"name: ", "{{.ReleaseName}}", "-memberof-setup namespace: ", "{{.Namespace}}",
      " -D cn=admin,", "{{.BaseDN}}", " -w ", "{{.AdminPass}}",
      " -b ", "{{.BaseDN}}", " # ", "{{.AdminPass}}">>

\* strings.ReplaceAll
RECURSIVE ReplaceAll(_, _, _)
ReplaceAll(s, old, new) ==
    IF s = <<>> THEN <<>>
    ELSE IF Head(s) = old THEN new \o ReplaceAll(Tail(s), old, new)
    ELSE <<Head(s)>> \o ReplaceAll(Tail(s), old, new)

\* A rendering that substitutes the admin credential first.
applyMemberOfJob_AdminFirst(c) ==
    LET y1 == ReplaceAll(memberOfJobYAML, "{{.AdminPass}}", c.AdminPass)
        y2 == ReplaceAll(y1, "{{.ReleaseName}}", <<c.ReleaseName>>)
        y3 == ReplaceAll(y2, "{{.Namespace}}", <<c.Namespace>>)
    IN  ReplaceAll(y3, "{{.BaseDN}}", c.BaseDN)

\* applyMemberOfJob: the document handed to applyYAML.
applyMemberOfJob(c) ==
    LET y1 == ReplaceAll(memberOfJobYAML, "{{.ReleaseName}}", <<c.ReleaseName>>)
        y2 == ReplaceAll(y1, "{{.Namespace}}", <<c.Namespace>>)
        y3 == ReplaceAll(y2, "{{.BaseDN}}", c.BaseDN)
    IN  ReplaceAll(y3, "{{.AdminPass}}", c.AdminPass)

MaxPassLen == 2

\* Admin credentials as ask returns them: not empty, no blank at either end.
RenderPasswords ==
    LET A == {"p", "{{.BaseDN}}", "{{.AdminPass}}", "{{.ReleaseName}}"}
    IN  UNION {[1..n -> A] : n \in 1..MaxPassLen}

RenderDomains == {<<"a">>, <<"a", ".", "b">>, <<"a", ".", ".", "b">>}

\* Configurations as main holds them after the prompts.
RenderConfigs ==
    {[InitialConfig EXCEPT !.Domain = d, !.BaseDN = baseDNFromDomain(d),
                           !.AdminPass = pw, !.ConfigPass = pw] :
        d \in RenderDomains, pw \in RenderPasswords}

CallApplyMemberOfJob ==
    /\ pc = "Render"
    /\ pc' = "Rendered"
    /\ fnOut' = applyMemberOfJob(cfg)
    /\ UNCHANGED <<run, cfg, typed, conn, err, rejects, ops, entered, snapshot,
                   secret, stdout, fnIn, pods>>
    /\ UNCHANGED worldVars /\ UNCHANGED svcVars

InitRender ==
    /\ pc = "Render"
    /\ run = 1 /\ typed = NoTyped /\ conn = NoConn /\ err = "none" /\ rejects = 0
    /\ ops = <<>> /\ entered = <<>> /\ snapshot = NoSnapshot
    /\ secret = NoSecret /\ stdout = {} /\ pods = NoPods
    /\ cfg \in RenderConfigs
    /\ WorldInit /\ namespaces = {} /\ repoFile = AbsentFile
    /\ SvcIdle
    /\ fnIn = EmptyCIDR
    /\ fnOut = <<>>

NextRender == CallApplyMemberOfJob

SpecRender == InitRender /\ [][NextRender]_vars

\* The value bound to a placeholder.
Binding(c, t) ==
    CASE t = "{{.ReleaseName}}" -> <<c.ReleaseName>>
      [] t = "{{.Namespace}}" -> <<c.Namespace>>
      [] t = "{{.BaseDN}}" -> c.BaseDN
      [] t = "{{.AdminPass}}" -> c.AdminPass

\* The template with every placeholder replaced by its value, at once.
RECURSIVE Substituted(_, _)
Substituted(t, c) ==
    IF t = <<>> THEN <<>>
    ELSE (IF Head(t) \in Placeholders THEN Binding(c, Head(t)) ELSE <<Head(t)>>)
             \o Substituted(Tail(t), c)

\* C11 as stated: the rendered document is the template with the four
\* placeholders replaced by the configuration's values, and no placeholder
\* token occurs in it, whatever the admin credential holds.
C11_RenderedWithoutTokens ==
    pc = "Rendered" =>
        /\ fnOut = Substituted(memberOfJobYAML, cfg)
        /\ Range(fnOut) \cap Placeholders = {}

\* C11 as amended: the rendered document is the template with the four
\* placeholders replaced by the configuration's values, and the only
\* placeholder tokens in it are those that the admin credential spells.
C11_RenderedLiterally ==
    pc = "Rendered" =>
        /\ fnOut = Substituted(memberOfJobYAML, cfg)
        /\ Range(fnOut) \cap Placeholders = Range(cfg.AdminPass) \cap Placeholders

\* A credential that spells the token of the base identifier was rendered.
C11_Witness ==
    /\ pc = "Rendered"
    /\ cfg.AdminPass = <<"{{.BaseDN}}", "p">>
    /\ cfg.Domain = <<"a", ".", ".", "b">>
    /\ Len(fnOut) > Len(memberOfJobYAML)

---------------------------------------------------------------------------
(* GitLabService.buildHelmValues as a function of the configuration        *)
(* (specification SpecValues).                                             *)

\* The configurations the values are built from.
ValuesConfigs ==
    [Domain : {"example.com", ""}, Hostname : {"gitlab.example.com", ""},
     SMTPEnabled : BOOLEAN, EnableHTTPS : BOOLEAN,
     CertManagerEmail : {"", " ", "ops@example.com"},
     StorageClass : {"", "local-path"}]

NoGitLabValues == [kind |-> "none"]

CallBuildHelmValues ==
    /\ pc = "Build"
    /\ pc' = "Built"
    /\ fnOut' = GitLab_buildHelmValues(fnIn)
    /\ UNCHANGED fnIn
    /\ UNCHANGED <<run, cfg, typed, conn, err, rejects, ops, entered, snapshot,
                   secret, stdout, pods>>
    /\ UNCHANGED worldVars /\ UNCHANGED svcVars

InitValues ==
    /\ pc = "Build"
    /\ RunIdle
    /\ WorldInit /\ namespaces = {} /\ repoFile = AbsentFile
    /\ SvcIdle
    /\ fnIn \in ValuesConfigs
    /\ fnOut = NoGitLabValues

NextValues == CallBuildHelmValues

SpecValues == InitValues /\ [][NextValues]_vars

\* C17: in the values built for GitLab the SMTP block is there exactly when
\* SMTP is enabled, and the issuer annotation exactly when HTTPS is enabled
\* and the issuer e-mail is not empty; with both gates off neither is there.
C17_OptionalSubtrees ==
    pc = "Built" =>
        /\ "global.smtp" \in fnOut.optional <=> fnIn.SMTPEnabled
        /\ "global.ingress.annotations" \in fnOut.optional
               <=> (fnIn.EnableHTTPS /\ fnIn.CertManagerEmail # "")
        /\ (~fnIn.SMTPEnabled /\ ~fnIn.EnableHTTPS) =>
               fnOut.optional \cap {"global.smtp", "global.ingress.annotations"} = {}

\* HTTPS is enabled without an issuer e-mail and SMTP is enabled: the values
\* have the SMTP block and no annotation.
C17_Witness ==
    /\ pc = "Built"
    /\ fnIn.SMTPEnabled
    /\ fnIn.EnableHTTPS
    /\ fnIn.CertManagerEmail = ""
    /\ fnOut.optional = {"global.smtp"}


---------------------------------------------------------------------------
(* The two OpenLDAP install paths, each called once on a machine and a      *)
(* cluster that earlier runs may have left in any state (SpecPaths).        *)

\* The releases that earlier runs may have left.
PathReleases ==
    {[n \in ReleaseNames |-> NoRelease]}
    \cup {[[n \in ReleaseNames |-> NoRelease] EXCEPT !["ldap"] =
              [status |-> st, chart |-> ChartRef(SvcConfig),
               values |-> LDAPValues(SvcConfig)]] : st \in {"deployed", "failed"}}

\* The cache that earlier runs may have left.
PathCaches ==
    {[n \in RepoNames |-> NoCache],
     [[n \in RepoNames |-> NoCache] EXCEPT !["helm-openldap"] =
         [present |-> TRUE, url |-> SvcConfig.OpenLDAPRepo, doc |-> "index"]]}

InitPaths ==
    /\ pc = "Svc"
    /\ RunIdle
    /\ SvcIdle
    /\ FnIdle
    /\ namespaces \in {{}, {"infra"}}
    /\ releases \in PathReleases
    /\ repoFile \in InitialRepoFiles
    /\ cache \in PathCaches
    /\ jobs = {}
    /\ tmp = {}

\* One call of installOpenLDAP.
PathInstallOpenLDAP == call.seq = 0 /\ SvcInstallOpenLDAP

\* One call of OpenLDAPService.Install.
PathOLSInstall == call.seq = 0 /\ SvcOLSInstall

NextPaths ==
    \/ PathInstallOpenLDAP
    \/ PathOLSInstall

SpecPaths == InitPaths /\ [][NextPaths]_vars

\* The configurations that the two install paths are compared for: those of
\* the calls, and one with a pinned chart version.
PathConfigs ==
    SvcConfigs \cup {[SvcConfig EXCEPT !.OpenLDAPVer = "4.3.3"]}

\* The operations of a call apart from the making of the Helm action
\* configuration, which the service path does when the HelmManager is built.
WithoutConfigStep(o) == SelectSeq(o, LAMBDA x : x # "helm config")

\* What two results of an install path are compared by: the operations in
\* their order, whether an error was returned (the two paths word their
\* errors differently), and the releases (with their chart references and
\* values), namespaces, registration file and cache that the call left.
Outcome(r) ==
    [r EXCEPT !.ops = WithoutConfigStep(@),
              !.ret = IF @ = "nil" THEN "nil" ELSE "error",
              !.repoRet = IF @ = "nil" THEN "nil" ELSE "error"]

\* C25: from every state of the machine and the cluster, for every
\* configuration and every outcome of the external calls, installOpenLDAP
\* and OpenLDAPService.Install build the same values and give the same
\* result.
C25_PathsEquivalent ==
    \A c \in PathConfigs :
        /\ LDAPValues(c) = OLS_buildHelmValues(c)
        /\ \A o \in RepoOutcomes, io \in InstallOutcomes, haveConfig \in BOOLEAN :
               Outcome(installOpenLDAP(c, repoFile, cache, releases, namespaces,
                                       o, haveConfig, io))
                   = Outcome(OLS_Install(c, repoFile, cache, releases, namespaces, o, io))

\* C25 amended: the two paths build the same values, and give the same
\* result whenever installOpenLDAP obtains its Helm action configuration.
\* When it does not, installOpenLDAP returns an error after its repository
\* step, with the registration as the service path leaves it, and does not
\* go on to the install, while OpenLDAPService.Install, whose HelmManager was
\* given the configuration when it was built, does.
C25_PathsEquivalentGivenConfig ==
    \A c \in PathConfigs :
        /\ LDAPValues(c) = OLS_buildHelmValues(c)
        /\ \A o \in RepoOutcomes, io \in InstallOutcomes :
               Outcome(installOpenLDAP(c, repoFile, cache, releases, namespaces,
                                       o, TRUE, io))
                   = Outcome(OLS_Install(c, repoFile, cache, releases, namespaces, o, io))
        /\ \A o \in RepoOutcomes :
               LET without == Outcome(installOpenLDAP(c, repoFile, cache, releases,
                                                      namespaces, o, FALSE, InstallOK))
                   repo == AddRepository("helm-openldap", c.OpenLDAPRepo,
                                         repoFile, cache, o)
               IN  without = [ret |-> "error",
                              repoRet |-> IF repo.ret = "nil" THEN "nil" ELSE "error",
                              repoFile |-> repo.repoFile, cache |-> repo.cache,
                              releases |-> releases, namespaces |-> namespaces,
                              ops |-> repo.ops]

\* OpenLDAPService.Install was called on a cluster that has the release and
\* was refused at the install itself, as installOpenLDAP is.
C25_Witness ==
    /\ call.seq = 1
    /\ call.fn = "OpenLDAPService.Install"
    /\ call.ret = "failed to install OpenLDAP chart"
    /\ "helm install" \in Range(call.ops)
    /\ releases[call.rel].status = "deployed"

\* installOpenLDAP was called on a machine whose registration file does not
\* load and deployed the release.
C25_WitnessInstalled ==
    /\ call.seq = 1
    /\ call.fn = "installOpenLDAP"
    /\ call.ret = "nil"
    /\ releases[call.rel].status = "deployed"
    /\ ~call.o.direct

=============================================================================
